---- MODULE Spec2Model ----
(***************************************************************************)
(* Model of the CN616A log viewer (cn616a_live_plot_new.py): the ingestion *)
(* of a growing JSONL log into per-zone series and "last line" snapshots.  *)
(*                                                                         *)
(* JSON values are modelled by their tokens (strings): "None" is Python's  *)
(* None / JSON null, "Missing" marks a key that the object does not have.  *)
(* Zone ids are integer tokens ("1", "12").                                *)
(***************************************************************************)
EXTENDS Integers, Sequences, FiniteSets, TLC

\* ------------------------------------------------------------------ bounds
\* Longest log the writer produces.
MaxLines == 2

\* ------------------------------------------------------------ JSON values
None == "None"
Missing == "Missing"
\* The placeholder of last_method / last_mode (an em dash in the source).
Dash == "-"

\* Tokens json.loads turns into a Python int.
IntTokens == {"0", "1", "2", "3", "4", "5", "6", "9", "12", "72",
              "1700000000", "1700000010"}
\* Tokens json.loads turns into a Python float (NaN and Infinity included).
FloatTokens == {"72.5", "73.1", "80.0", "0.0", "NaN", "Infinity"}
\* Tokens json.loads turns into a Python str.
IsoTokens == {"2024-01-01T00:00:00"}
StrTokens == IsoTokens \cup {"abc", "PID", "AUTO", "MANUAL", ""}

\* obj.get(k): None when the key is missing.
Get(obj, k) == IF obj[k] = Missing THEN None ELSE obj[k]
\* obj.get(k, d)
GetDefault(obj, k, d) == IF obj[k] = Missing THEN d ELSE obj[k]

\* Python truth value of a JSON value.
Truthy(x) == x \notin {None, "0", "0.0", "false", ""}
\* Python's `a or b`.
Or(a, b) == IF Truthy(a) THEN a ELSE b

\* float(x) succeeds (no exception).
FloatOk(x) == x \in IntTokens \cup FloatTokens
\* float(x) of a value float() accepts: an int becomes the float of that value.
Float(x) ==
    CASE x = "0" -> "0.0"
      [] x = "72" -> "72.0"
      [] x = "1700000000" -> "1700000000.0"
      [] x = "1700000010" -> "1700000010.0"
      [] OTHER -> x

is_nan_noNaN(x) == x = None
is_nan(x) == x = None \/ (x \in FloatTokens /\ x = "NaN")

\* datetime.fromtimestamp raises for NaN and infinities.
EpochOk(x) == FloatOk(x) /\ x \notin {"NaN", "Infinity"}
epoch_to_dt_local(x) == [src |-> "epoch", v |-> Float(x)]
fromisoformat(x) == [src |-> "iso", v |-> x]
NoDt == [src |-> "none", v |-> None]

\* ------------------------------------------------------------- ZoneSeries
DEFAULT_ZONES == {"1", "2", "3", "4", "5", "6"}

ZoneSeries(z) ==
    [zone |-> z, t |-> <<>>, pv |-> <<>>,
     last_pv |-> None, last_sp |-> None, last_out |-> None,
     last_method |-> Dash, last_mode |-> Dash,
     last_autotune |-> None, last_autotune_sp |-> None]

clear_trace_onlyT(s) == [s EXCEPT !.t = <<>>]
\* Lines 94-96.
clear_trace(s) == [s EXCEPT !.t = <<>>, !.pv = <<>>]

ResetZone_keepAutotuneSp(s) ==
    [clear_trace(s) EXCEPT !.last_pv = None, !.last_sp = None, !.last_out = None,
                           !.last_method = Dash, !.last_mode = Dash,
                           !.last_autotune = None]
\* The body of the reset loop of open_log (lines 297-304).
ResetZone(s) ==
    [clear_trace(s) EXCEPT !.last_pv = None, !.last_sp = None, !.last_out = None,
                           !.last_method = Dash, !.last_mode = Dash,
                           !.last_autotune = None, !.last_autotune_sp = None]

\* ------------------------------------------------------------ _ingest_line
\* The viewer's zone registry: S = [series_by_zone, tabs_by_zone, nb], nb
\* being the zones of the tabs added to the notebook, in order.
RegistryOf(r) ==
    [series_by_zone |-> r.series_by_zone, tabs_by_zone |-> r.tabs_by_zone, nb |-> r.nb]
\* The result of one _ingest_line call adds ret (the returned zone or None)
\* and raised (an exception left the function).
Returns(S, r) ==
    [series_by_zone |-> S.series_by_zone, tabs_by_zone |-> S.tabs_by_zone,
     nb |-> S.nb, ret |-> r, raised |-> FALSE]
Raises(S) ==
    [series_by_zone |-> S.series_by_zone, tabs_by_zone |-> S.tabs_by_zone,
     nb |-> S.nb, ret |-> None, raised |-> TRUE]

_ensure_zone_always(S, z) ==
    [series_by_zone |->
        [x \in DOMAIN S.series_by_zone \cup {z} |->
            IF x = z THEN ZoneSeries(z) ELSE S.series_by_zone[x]],
     tabs_by_zone |-> S.tabs_by_zone \cup {z},
     nb |-> Append(S.nb, z)]
_ensure_zone(S, z) ==
    IF z \in DOMAIN S.series_by_zone
    THEN S
    ELSE [series_by_zone |->
             [x \in DOMAIN S.series_by_zone \cup {z} |->
                 IF x = z THEN ZoneSeries(z) ELSE S.series_by_zone[x]],
          tabs_by_zone |-> S.tabs_by_zone \cup {z},
          nb |-> Append(S.nb, z)]

\* isinstance(z, int)
IsInt(z) == z \in IntTokens

\* The alias chain of the event path (lines 360-366).
EventAutotuneSp(obj) ==
    Or(Get(obj, "autotune_sp_c"),
       Or(Get(obj, "autotune_setpoint_c"),
          Or(Get(obj, "autotune_setpoint"),
             Or(Get(obj, "sp"), Get(obj, "setpoint")))))

TelemetryAutotuneSp_noKeep(obj, last) ==
    Or(Get(obj, "autotune_sp_c"),
       Or(Get(obj, "autotune_setpoint_c"), Get(obj, "autotune_setpoint")))
\* The alias chain of the telemetry path (lines 419-424).
TelemetryAutotuneSp(obj, last) ==
    Or(Get(obj, "autotune_sp_c"),
       Or(Get(obj, "autotune_setpoint_c"),
          Or(Get(obj, "autotune_setpoint"), last)))

\* Timestamp resolution (lines 381-397): the datetime, or NoDt when the
\* function returns early.
ResolveTime(obj) ==
    LET t_epoch == Get(obj, "t_epoch_s")
        ts == Get(obj, "ts")
    IN  IF t_epoch = None
        THEN IF ts \in StrTokens
             THEN IF ts \in IsoTokens THEN fromisoformat(ts) ELSE NoDt
             ELSE NoDt
        ELSE IF EpochOk(t_epoch) THEN epoch_to_dt_local(t_epoch) ELSE NoDt

IngestEvent(S, obj) ==
    LET z == Get(obj, "zone") IN
    IF IsInt(z)
    THEN LET S1 == _ensure_zone(S, z)
             sp == EventAutotuneSp(obj)
         IN  IF sp # None
             THEN Returns([S1 EXCEPT !.series_by_zone[z].last_autotune_sp = sp], None)
             ELSE Returns(S1, None)
    ELSE Returns(S, None)

\* Lines 399-426: the telemetry line has a zone and a timestamp.
ApplyTelemetry(S1, z, obj, dt) ==
    LET s == S1.series_by_zone[z]
        pv == Get(obj, "pv_c")
        sp == Get(obj, "sp_abs_c")
        out == Get(obj, "output_pct")
    IN  IF ~is_nan(pv) /\ ~FloatOk(pv)
        THEN Raises(S1)
        ELSE LET s1 == IF ~is_nan(pv)
                       THEN [s EXCEPT !.t = Append(@, dt), !.pv = Append(@, Float(pv))]
                       ELSE s
                 s2 == [s1 EXCEPT !.last_pv = pv, !.last_sp = sp, !.last_out = out,
                                  !.last_method = GetDefault(obj, "method", Dash),
                                  !.last_mode = GetDefault(obj, "mode", Dash),
                                  !.last_autotune = Get(obj, "autotune"),
                                  !.last_autotune_sp =
                                      TelemetryAutotuneSp(obj, s.last_autotune_sp)]
             IN  Returns([S1 EXCEPT !.series_by_zone[z] = s2], z)

IngestTelemetry(S, obj) ==
    LET z == Get(obj, "zone") IN
    IF ~IsInt(z)
    THEN Returns(S, None)
    ELSE LET S1 == _ensure_zone(S, z)
             dt == ResolveTime(obj)
         IN  IF dt = NoDt THEN Returns(S1, z) ELSE ApplyTelemetry(S1, z, obj, dt)

NotTelemetry_never(typ) == FALSE
\* Line 371.
NotTelemetry(typ) == typ # "telemetry"

\* A raw line is [kind, obj, marker, ztext, idx, part]: kind is what
\* line.strip() and json.loads make of it ("blank", "badjson", "nonobj" for
\* valid JSON that is no object, "obj"), marker says whether the text
\* contains '"type": "telemetry"', ztext is the first match of the zone
\* regex (None without a match); idx and part locate the text in the log.
_ingest_line(S, line) ==
    IF line.kind = "blank" THEN Returns(S, None)
    ELSE IF line.kind = "badjson" THEN Returns(S, None)
    ELSE IF line.kind = "nonobj" THEN Raises(S)
    ELSE LET obj == line.obj
             typ == Get(obj, "type")
         IN  IF typ = "event" THEN IngestEvent(S, obj)
             ELSE IF NotTelemetry(typ) THEN Returns(S, None)
             ELSE IngestTelemetry(S, obj)

\* ------------------------------------------------------------ the log file
Keys == {"type", "zone", "t_epoch_s", "ts", "pv_c", "sp_abs_c", "output_pct",
         "method", "mode", "autotune", "autotune_sp_c", "autotune_setpoint_c",
         "autotune_setpoint", "sp", "setpoint"}
EmptyObj == [k \in Keys |-> Missing]

\* A telemetry object with only the fields given, and one with every status field.
Tel(z, t, pv) ==
    [EmptyObj EXCEPT !["type"] = "telemetry", !["zone"] = z,
                     !["t_epoch_s"] = t, !["pv_c"] = pv]
TelFull(z, t, pv) ==
    [Tel(z, t, pv) EXCEPT !["sp_abs_c"] = "75.0", !["output_pct"] = "40.0",
                          !["method"] = "PID", !["mode"] = "AUTO",
                          !["autotune"] = "true"]
Event(z) == [EmptyObj EXCEPT !["type"] = "event", !["zone"] = z]

\* The text of a line holding the object obj; spaced says whether the writer
\* separates keys and values with ": " (json.dumps's default) or with ":".
ObjLine(obj, spaced) ==
    [kind |-> "obj", obj |-> obj,
     marker |-> spaced /\ obj["type"] = "telemetry",
     ztext |-> IF IsInt(obj["zone"]) THEN obj["zone"] ELSE None]
OtherLine(kind, marker, ztext) ==
    [kind |-> kind, obj |-> EmptyObj, marker |-> marker, ztext |-> ztext]

TelemetryLines ==
    { ObjLine(TelFull("1", "1700000000", "72.5"), TRUE),
      ObjLine(Tel("1", "1700000010", "73.1"), FALSE),
      ObjLine(Tel("2", "1700000010", "73.1"), TRUE),
      ObjLine(TelFull("12", "1700000000", "72"), TRUE),
      ObjLine([Tel("1", "1700000010", None) EXCEPT !["mode"] = "MANUAL"], TRUE),
      ObjLine(Tel("1", "1700000010", "NaN"), TRUE),
      ObjLine(Tel("1", "1700000010", "Infinity"), TRUE),
      ObjLine([Tel("1", Missing, "73.1") EXCEPT !["mode"] = "MANUAL"], TRUE),
      ObjLine([Tel("1", Missing, "73.1") EXCEPT !["ts"] = "2024-01-01T00:00:00"], FALSE),
      ObjLine([TelFull("1", "abc", "73.1") EXCEPT !["ts"] = "2024-01-01T00:00:00"], TRUE),
      ObjLine(Tel("12", "1700000010", "abc"), TRUE),
      ObjLine(Tel("abc", "1700000010", "73.1"), TRUE),
      ObjLine(Tel(Missing, "1700000010", "73.1"), TRUE),
      ObjLine([Tel("1", "1700000010", "73.1") EXCEPT !["autotune_sp_c"] = "5",
                                                     !["autotune_setpoint"] = "9"], TRUE),
      ObjLine([Tel("1", "1700000010", "73.1") EXCEPT !["autotune_sp_c"] = "0",
                                                     !["autotune_setpoint"] = "9"], TRUE),
      ObjLine([Tel("1", Missing, "73.1") EXCEPT !["autotune_sp_c"] = "5",
                                                !["autotune_setpoint"] = "9"], TRUE) }

EventLines ==
    { ObjLine([Event("1") EXCEPT !["autotune_setpoint_c"] = "80.0"], TRUE),
      ObjLine([Event("1") EXCEPT !["autotune_sp_c"] = "0", !["setpoint"] = "9"], TRUE),
      ObjLine([Event("1") EXCEPT !["setpoint"] = "0"], TRUE),
      ObjLine(Event("1"), TRUE),
      ObjLine(Event("12"), TRUE) }

SkippedLines ==
    { OtherLine("blank", FALSE, None),
      OtherLine("badjson", TRUE, "2"),
      OtherLine("nonobj", FALSE, None),
      ObjLine([TelFull("3", "1700000000", "72.5") EXCEPT !["type"] = "other"], TRUE),
      ObjLine([TelFull("12", "1700000000", "72.5") EXCEPT !["type"] = Missing], TRUE) }

\* Every kind of line _ingest_line tells apart.
AllLines == TelemetryLines \cup EventLines \cup SkippedLines

\* What the writer appends while the viewer's handlers run at any moment.
LogLines ==
    { ObjLine(TelFull("1", "1700000000", "72.5"), TRUE),
      ObjLine([Tel("1", Missing, "73.1") EXCEPT !["ts"] = "2024-01-01T00:00:00"], FALSE),
      ObjLine(TelFull("12", "1700000000", "72"), TRUE),
      ObjLine(Tel("12", "1700000010", "abc"), TRUE),
      ObjLine(Tel("1", "1700000010", "NaN"), TRUE),
      ObjLine([Event("1") EXCEPT !["autotune_setpoint_c"] = "80.0"], TRUE),
      OtherLine("badjson", TRUE, "2"),
      OtherLine("nonobj", FALSE, None) }

\* Lines whose write may reach the file in two pieces.
PartialLines ==
    { ObjLine(TelFull("1", "1700000000", "72.5"), TRUE),
      ObjLine(TelFull("12", "1700000000", "72"), TRUE),
      ObjLine([Event("1") EXCEPT !["autotune_setpoint_c"] = "80.0"], TRUE) }

\* Where a write that stops mid-line stops: before the type marker, between
\* the marker and the zone key, inside the zone's digits, after the zone.
\* File offsets count these places: a line is LineSize offsets long, and the
\* cut Cuts[c] of line k is at offset LineSize * (k - 1) + c.
Cuts == <<"pre", "mid", "digit", "post">>
LineSize == Len(Cuts) + 1
FirstDigit(z) == IF z = "12" THEN "1" ELSE None

\* The unterminated head of a line, as readlines returns it, and the rest of
\* the line, read once the writer has completed it.  Neither is valid JSON.
HeadFragment(text, cut) ==
    [kind |-> "badjson", obj |-> EmptyObj,
     marker |-> text.marker /\ cut # "pre",
     ztext |-> IF cut = "post" THEN text.ztext
               ELSE IF cut = "digit" THEN FirstDigit(text.ztext) ELSE None]
RestFragment(text, cut) ==
    [kind |-> "badjson", obj |-> EmptyObj,
     marker |-> text.marker /\ cut = "pre",
     ztext |-> IF cut \in {"pre", "mid"} THEN text.ztext ELSE None]

VARIABLES
    file,              \* the log's lines, the one being written included
    size,              \* the log's size: less than LineSize * Len(file) while the last line is cut
    current_log_path,  \* None, "log", or "log2": a second log, empty, that nobody writes
    _tail_fp,          \* None or the path of the file it is open on
    _tail_pos,         \* file offset
    series_by_zone,
    tabs_by_zone,
    nb,                \* the notebook: the zone of each tab added, in order
    timers,            \* the callbacks Tk holds for after(): pending, in order
    status_bar,
    pc,                \* "idle", or "open_tail": open_log has read the file and not yet opened the tail
    n_lines, n_tel,    \* open_log's counters
    applied,           \* per log line, how often _ingest_line got it whole since the last open_log
    last               \* the last handler: the lines it read, what _ingest_line did to each, zones_touched;
                       \* for open_log also what the registry held before: "same" (the log
                       \* just loaded, unchanged since), "data" or "fresh"

vars == <<file, size, current_log_path, _tail_fp, _tail_pos, series_by_zone,
          tabs_by_zone, nb, timers, status_bar, pc, n_lines, n_tel, applied, last>>

Registry == [series_by_zone |-> series_by_zone, tabs_by_zone |-> tabs_by_zone, nb |-> nb]

Status(kind, nl, nt) == [kind |-> kind, n_lines |-> nl, n_tel |-> nt]
NoLast == [op |-> "none", batch |-> <<>>, log |-> <<>>, zones_touched |-> {},
           before |-> "none"]

\* The last line of the log is not yet complete.
partial == size < LineSize * Len(file)

\* The lines a read from offset pos to the end of the file returns.
ReadLines(pos) ==
    IF pos >= size
    THEN <<>>
    ELSE LET first == (pos \div LineSize) + 1
         IN  [i \in 1..(Len(file) - first + 1) |->
                LET k == first + i - 1
                IN  IF k = first /\ pos % LineSize # 0
                    THEN RestFragment(file[k], Cuts[pos % LineSize])
                            @@ [idx |-> k, part |-> "rest"]
                    ELSE IF k = Len(file) /\ partial
                    THEN HeadFragment(file[k], Cuts[size % LineSize])
                            @@ [idx |-> k, part |-> "head"]
                    ELSE file[k] @@ [idx |-> k, part |-> "whole"]]

\* What one _ingest_line call did: the registry before and after it.
LogEntry(line, S, r) ==
    [line |-> line, pre |-> S,
     post |-> RegistryOf(r),
     ret |-> r.ret, raised |-> r.raised]

\* open_log counts a line as telemetry by its text (line 313).
CountsAsTelemetry_parsed(line, r) == r.ret # None
CountsAsTelemetry(line, r) == line.marker

\* The loop of open_log (lines 311-315) from line i on; acc is
\* [S, log, n_lines, n_tel, raised].
RECURSIVE LoadLoop(_, _, _)
LoadLoop(acc, lines, i) ==
    IF i > Len(lines) \/ acc.raised
    THEN acc
    ELSE LET line == lines[i]
             r == _ingest_line(acc.S, line)
         IN  LoadLoop([S |-> RegistryOf(r),
                       log |-> Append(acc.log, LogEntry(line, acc.S, r)),
                       n_lines |-> acc.n_lines + 1,
                       n_tel |-> acc.n_tel + (IF CountsAsTelemetry(line, r) THEN 1 ELSE 0),
                       raised |-> r.raised],
                      lines, i + 1)

\* The fast zone guess of _tail_tick (lines 439-446).
ZoneGuess(line) == IF line.marker THEN line.ztext ELSE None

\* The loop of _tail_tick (lines 437-452) from line i on; acc is
\* [S, log, zones_touched, raised].
RECURSIVE TailLoop(_, _, _)
TailLoop(acc, lines, i) ==
    IF i > Len(lines) \/ acc.raised
    THEN acc
    ELSE LET line == lines[i]
             z_guess == ZoneGuess(line)
             r == _ingest_line(acc.S, line)
             z == r.ret
         IN  TailLoop([S |-> RegistryOf(r),
                       log |-> Append(acc.log, LogEntry(line, acc.S, r)),
                       zones_touched |->
                           IF r.raised THEN acc.zones_touched
                           ELSE IF z # None THEN acc.zones_touched \cup {z}
                           ELSE IF z_guess # None THEN acc.zones_touched \cup {z_guess}
                           ELSE acc.zones_touched,
                       raised |-> r.raised],
                      lines, i + 1)

\* applied, after the calls of log.
Count(log) ==
    [k \in DOMAIN applied |->
        applied[k] + Cardinality({i \in DOMAIN log :
                                    log[i].line.idx = k /\ log[i].line.part = "whole"})]

\* ------------------------------------------------------------------- Init
\* The viewer after construction, with no log found in the logs directory;
\* the log file exists and is empty.
Init ==
    /\ file = <<>>
    /\ size = 0
    /\ current_log_path = None
    /\ _tail_fp = None
    /\ _tail_pos = 0
    /\ series_by_zone = [z \in DEFAULT_ZONES |-> ZoneSeries(z)]
    /\ tabs_by_zone = DEFAULT_ZONES
    /\ nb = <<"1", "2", "3", "4", "5", "6">>
    /\ timers = <<"_tail_tick">>
    /\ status_bar = Status("nolog", 0, 0)
    /\ pc = "idle"
    /\ n_lines = 0
    /\ n_tel = 0
    /\ applied = <<>>
    /\ last = NoLast

\* ------------------------------------------------------------- the writer
\* The logger appends one whole line.
WriteLine ==
    /\ Len(file) < MaxLines /\ ~partial
    /\ \E text \in LogLines : file' = Append(file, text)
    /\ size' = LineSize * Len(file')
    /\ applied' = Append(applied, 0)
    /\ last' = NoLast
    /\ UNCHANGED <<current_log_path, _tail_fp, _tail_pos, series_by_zone,
                   tabs_by_zone, nb, timers, status_bar, pc, n_lines, n_tel>>

\* The logger's write reaches the file in two pieces: first the head of the
\* line, up to a cut.
WriteHead ==
    /\ Len(file) < MaxLines /\ ~partial
    /\ \E text \in PartialLines, c \in DOMAIN Cuts :
          /\ Cuts[c] = "digit" => FirstDigit(text.ztext) # None
          /\ file' = Append(file, text)
          /\ size' = size + c
    /\ applied' = Append(applied, 0)
    /\ last' = NoLast
    /\ UNCHANGED <<current_log_path, _tail_fp, _tail_pos, series_by_zone,
                   tabs_by_zone, nb, timers, status_bar, pc, n_lines, n_tel>>

\* ... then the rest of the line and its newline.
WriteRest ==
    /\ partial
    /\ size' = LineSize * Len(file)
    /\ last' = NoLast
    /\ UNCHANGED <<file, current_log_path, _tail_fp, _tail_pos, series_by_zone,
                   tabs_by_zone, nb, timers, status_bar, pc, n_lines, n_tel, applied>>

\* ------------------------------------------------------------- the viewer
OpenMissing_closes ==
    /\ pc = "idle"
    /\ status_bar' = Status("notfound", 0, 0)
    /\ last' = [NoLast EXCEPT !.op = "open_missing"]
    /\ _tail_fp' = None
    /\ _tail_pos' = 0
    /\ UNCHANGED <<file, size, current_log_path, series_by_zone, tabs_by_zone,
                   nb, timers, pc, n_lines, n_tel, applied>>
\* open_log(path) for a path that does not exist (lines 288-290).
OpenMissing ==
    /\ pc = "idle"
    /\ status_bar' = Status("notfound", 0, 0)
    /\ last' = [NoLast EXCEPT !.op = "open_missing"]
    /\ UNCHANGED <<file, size, current_log_path, _tail_fp, _tail_pos,
                   series_by_zone, tabs_by_zone, nb, timers, pc, n_lines, n_tel,
                   applied>>

ResetAll_keepTrace(S) == [z \in DOMAIN S |-> [ResetZone(S[z]) EXCEPT !.t = S[z].t, !.pv = S[z].pv]]
\* The reset loop of open_log over every known zone (lines 296-304).
ResetAll(S) == [z \in DOMAIN S |-> ResetZone(S[z])]

\* What the registry holds when open_log starts.
Before(path) ==
    IF last.op = "open_log" /\ path = "log" /\ current_log_path = "log"
       /\ pc = "idle" /\ last.batch = ReadLines(0)
    THEN "same"
    ELSE IF \E z \in DOMAIN series_by_zone : series_by_zone[z] # ZoneSeries(z)
    THEN "data"
    ELSE "fresh"

\* open_log(path) for the log, up to the end of the full read (lines
\* 292-318): close the tail, reset every zone, ingest the whole file.
OpenLogLoad ==
    /\ pc = "idle"
    /\ LET reset == [series_by_zone |-> ResetAll(series_by_zone),
                     tabs_by_zone |-> tabs_by_zone, nb |-> nb]
           lines == ReadLines(0)
           acc == LoadLoop([S |-> reset, log |-> <<>>, n_lines |-> 0, n_tel |-> 0,
                            raised |-> FALSE], lines, 1)
       IN  /\ _tail_fp' = None
           /\ _tail_pos' = 0
           /\ current_log_path' = "log"
           /\ series_by_zone' = acc.S.series_by_zone
           /\ tabs_by_zone' = acc.S.tabs_by_zone
           /\ nb' = acc.S.nb
           /\ applied' = [k \in DOMAIN applied |->
                            Cardinality({i \in DOMAIN acc.log :
                                           acc.log[i].line.idx = k
                                           /\ acc.log[i].line.part = "whole"})]
           /\ last' = [op |-> "open_log", batch |-> lines, log |-> acc.log,
                       zones_touched |-> {}, before |-> Before("log")]
           /\ IF acc.raised
              THEN /\ status_bar' = Status("failed", 0, 0)
                   /\ pc' = "idle"
                   /\ n_lines' = 0
                   /\ n_tel' = 0
              ELSE /\ status_bar' = status_bar
                   /\ pc' = "open_tail"
                   /\ n_lines' = acc.n_lines
                   /\ n_tel' = acc.n_tel
    /\ UNCHANGED <<file, size, timers>>

\* The rest of open_log (lines 320-332): tail from the end of the file as it
\* is now, redraw, report the counters.
OpenLogTail ==
    /\ pc = "open_tail"
    /\ _tail_fp' = "log"
    /\ _tail_pos' = size
    /\ status_bar' = Status("opened", n_lines, n_tel)
    /\ pc' = "idle"
    /\ n_lines' = 0
    /\ n_tel' = 0
    /\ UNCHANGED <<file, size, current_log_path, series_by_zone, tabs_by_zone,
                   nb, timers, applied, last>>

\* open_log(path) for the second log (lines 287-332), which is empty and
\* stays so: nothing to ingest, the tail starts at offset 0.
OpenOtherLog ==
    /\ pc = "idle"
    /\ _tail_fp' = "log2"
    /\ _tail_pos' = 0
    /\ current_log_path' = "log2"
    /\ series_by_zone' = ResetAll(series_by_zone)
    /\ applied' = [k \in DOMAIN applied |-> 0]
    /\ last' = [NoLast EXCEPT !.op = "open_log", !.before = Before("log2")]
    /\ status_bar' = Status("opened", 0, 0)
    /\ UNCHANGED <<file, size, tabs_by_zone, nb, timers, pc, n_lines, n_tel>>

Reschedule_inTry(T, raised) == IF raised THEN T ELSE Append(T, "_tail_tick")
\* self.after(TAIL_POLL_MS, self._tail_tick), after the try statement (line 462).
Reschedule(T, raised) == Append(T, "_tail_tick")

\* What readlines() returns from the tail file at _tail_pos (lines 431-432).
ReadTail == IF _tail_fp = "log" THEN ReadLines(_tail_pos) ELSE <<>>

\* _tail_tick (lines 428-462), the callback Tk runs when its timer is due.
TailTick ==
    /\ pc = "idle"
    /\ timers # <<>>
    /\ LET new_lines == IF _tail_fp # None /\ current_log_path # None
                        THEN ReadTail ELSE <<>>
           acc == TailLoop([S |-> Registry, log |-> <<>>, zones_touched |-> {},
                            raised |-> FALSE], new_lines, 1)
       IN  /\ IF new_lines # <<>>
              THEN /\ _tail_pos' = size
                   /\ series_by_zone' = acc.S.series_by_zone
                   /\ tabs_by_zone' = acc.S.tabs_by_zone
                   /\ nb' = acc.S.nb
                   /\ applied' = Count(acc.log)
                   /\ last' = [op |-> "_tail_tick", batch |-> new_lines,
                               log |-> acc.log, zones_touched |-> acc.zones_touched,
                               before |-> "none"]
                   /\ status_bar' = IF acc.raised THEN Status("tailerror", 0, 0)
                                    ELSE status_bar
              ELSE UNCHANGED <<_tail_pos, series_by_zone, tabs_by_zone, nb, applied,
                               last, status_bar>>
           /\ timers' = Reschedule(Tail(timers), acc.raised)
    /\ UNCHANGED <<file, size, current_log_path, _tail_fp, pc, n_lines, n_tel>>

\* The "Clear plot" button of zone z's tab (on_clear, lines 155-157).
on_clear ==
    /\ pc = "idle"
    /\ \E z \in tabs_by_zone :
          /\ series_by_zone[z].t # <<>>
          /\ series_by_zone' = [series_by_zone EXCEPT ![z] = clear_trace(@)]
    /\ last' = [NoLast EXCEPT !.op = "on_clear"]
    /\ UNCHANGED <<file, size, current_log_path, _tail_fp, _tail_pos, tabs_by_zone,
                   nb, timers, status_bar, pc, n_lines, n_tel, applied>>

Next ==
    \/ WriteLine
    \/ WriteHead
    \/ WriteRest
    \/ OpenMissing
    \/ OpenLogLoad
    \/ OpenLogTail
    \/ OpenOtherLog
    \/ TailTick
    \/ on_clear

Spec == Init /\ [][Next]_vars

\* A writer that appends whole lines of every kind, each after the viewer
\* has read the log to its end.
WriteLineRead ==
    /\ Len(file) < MaxLines /\ ~partial
    /\ pc = "idle" /\ _tail_pos = size
    /\ \E text \in AllLines : file' = Append(file, text)
    /\ size' = LineSize * Len(file')
    /\ applied' = Append(applied, 0)
    /\ last' = NoLast
    /\ UNCHANGED <<current_log_path, _tail_fp, _tail_pos, series_by_zone,
                   tabs_by_zone, nb, timers, status_bar, pc, n_lines, n_tel>>

NextIngest ==
    \/ WriteLineRead
    \/ OpenLogLoad
    \/ OpenLogTail
    \/ TailTick

SpecIngest == Init /\ [][NextIngest]_vars

\* A writer that appends only whole lines, at any moment, and a viewer that
\* opens the log and tails it.
NextWhole ==
    \/ WriteLine
    \/ OpenLogLoad
    \/ OpenLogTail
    \/ TailTick

SpecWhole == Init /\ [][NextWhole]_vars

\* ----------------------------------------------------------------- claims
\* Vocabulary of the claims, stated on a log entry e of the last handler.
TelemetryKeys == <<"autotune_sp_c", "autotune_setpoint_c", "autotune_setpoint">>
EventKeys == <<"autotune_sp_c", "autotune_setpoint_c", "autotune_setpoint", "sp", "setpoint">>
FinitePv == (IntTokens \cup FloatTokens) \ {"NaN", "Infinity"}

EntryIsMessage(e, typ) ==
    /\ e.line.kind = "obj"
    /\ e.line.obj["type"] = typ
    /\ e.line.obj["zone"] \in IntTokens
EntryZone(e) == e.line.obj["zone"]
TimestampResolvable(obj) ==
    IF obj["t_epoch_s"] \in {Missing, None}
    THEN obj["ts"] \in IsoTokens
    ELSE obj["t_epoch_s"] \in FinitePv
\* Zone z of the registry S, as a zone never seen is: empty.
ZoneOf(S, z) == IF z \in DOMAIN S.series_by_zone THEN S.series_by_zone[z] ELSE ZoneSeries(z)
SeriesOf(s) == <<s.t, s.pv>>
\* The value of the first key of keys that obj has, None if it has none of them.
RECURSIVE FirstPresent(_, _, _)
FirstPresent(obj, keys, i) ==
    IF i > Len(keys) THEN None
    ELSE IF obj[keys[i]] # Missing THEN obj[keys[i]]
    ELSE FirstPresent(obj, keys, i + 1)
AliasKeys(obj) == IF obj["type"] = "event" THEN EventKeys ELSE TelemetryKeys
PresentAliases(obj) == {i \in DOMAIN AliasKeys(obj) : obj[AliasKeys(obj)[i]] # Missing}
SnapshotIsLine(s, obj) ==
    /\ s.last_pv = Get(obj, "pv_c")
    /\ s.last_sp = Get(obj, "sp_abs_c")
    /\ s.last_out = Get(obj, "output_pct")
    /\ s.last_method = GetDefault(obj, "method", Dash)
    /\ s.last_mode = GetDefault(obj, "mode", Dash)
    /\ s.last_autotune = Get(obj, "autotune")

\* C1: a tail tick moves the cursor only past lines it has applied: every
\* line of which the tick read a piece and whose end the cursor has passed
\* was handed whole to _ingest_line, so no line the writer completes is lost.
C1_TailLosesNoCompletedLine ==
    (last.op = "_tail_tick" /\ \A i \in DOMAIN last.log : ~last.log[i].raised)
    => \A i \in DOMAIN last.log :
          LineSize * last.log[i].line.idx <= _tail_pos
          => applied[last.log[i].line.idx] >= 1

\* C2: a line appends exactly one point to zone z's series, at its end,
\* when it is a telemetry line for z with a finite pv_c and a resolvable
\* timestamp, and no line of any other kind changes a series.
C2_SeriesGrowsByFiniteTelemetryOnly ==
    \A i \in DOMAIN last.log :
       LET e == last.log[i] IN
       \A z \in DOMAIN e.post.series_by_zone :
          LET before == ZoneOf(e.pre, z)
              after == e.post.series_by_zone[z]
          IN  IF /\ EntryIsMessage(e, "telemetry") /\ EntryZone(e) = z
                 /\ e.line.obj["pv_c"] \in FinitePv
                 /\ TimestampResolvable(e.line.obj)
              THEN /\ Len(after.pv) = Len(before.pv) + 1
                   /\ Len(after.t) = Len(before.t) + 1
                   /\ SubSeq(after.pv, 1, Len(before.pv)) = before.pv
                   /\ SubSeq(after.t, 1, Len(before.t)) = before.t
                   /\ after.pv[Len(after.pv)] = Float(e.line.obj["pv_c"])
              ELSE SeriesOf(after) = SeriesOf(before)

\* C3: a telemetry line with an integer zone and no resolvable timestamp
\* adds no point but sets the zone's pv, sp_abs, output_pct, method, mode
\* and autotune to the line's values.
C3_NoTimestampStillUpdatesSnapshot ==
    \A i \in DOMAIN last.log :
       LET e == last.log[i] IN
       (EntryIsMessage(e, "telemetry") /\ ~TimestampResolvable(e.line.obj))
       => /\ SeriesOf(e.post.series_by_zone[EntryZone(e)]) = SeriesOf(ZoneOf(e.pre, EntryZone(e)))
          /\ SnapshotIsLine(e.post.series_by_zone[EntryZone(e)], e.line.obj)

\* C4: a telemetry line with a resolvable timestamp whose pv_c is null or
\* NaN appends no point and overwrites pv, sp_abs, output_pct, method, mode
\* and autotune with the line's values (the placeholder where the line has
\* no such field).
C4_NullPvKeepsSeriesOverwritesSnapshot ==
    \A i \in DOMAIN last.log :
       LET e == last.log[i] IN
       (/\ EntryIsMessage(e, "telemetry") /\ TimestampResolvable(e.line.obj)
        /\ e.line.obj["pv_c"] \in {Missing, None, "NaN"})
       => /\ ~e.raised
          /\ SeriesOf(e.post.series_by_zone[EntryZone(e)]) = SeriesOf(ZoneOf(e.pre, EntryZone(e)))
          /\ SnapshotIsLine(e.post.series_by_zone[EntryZone(e)], e.line.obj)
C4_Witness ==
    \E i \in DOMAIN last.log :
       LET e == last.log[i] IN
       /\ EntryIsMessage(e, "telemetry") /\ TimestampResolvable(e.line.obj)
       /\ e.line.obj["pv_c"] = "NaN" /\ e.line.obj["method"] = Missing
       /\ ZoneOf(e.pre, EntryZone(e)).pv # <<>>
       /\ ZoneOf(e.pre, EntryZone(e)).last_method = "PID"
       /\ e.post.series_by_zone[EntryZone(e)].last_method = Dash
       /\ e.post.series_by_zone[EntryZone(e)].last_pv = "NaN"

\* C5: a telemetry or event message whose highest-priority present alias
\* is 0 stores autotune_setpoint = 0.
C5_ZeroAliasIsStored ==
    \A i \in DOMAIN last.log :
       LET e == last.log[i] IN
       (/\ EntryIsMessage(e, "telemetry") \/ EntryIsMessage(e, "event")
        /\ FirstPresent(e.line.obj, AliasKeys(e.line.obj), 1) = "0")
       => e.post.series_by_zone[EntryZone(e)].last_autotune_sp = "0"

\* C6: a message with several present, non-zero aliases stores the value
\* of the one first in the priority order.
C6_HighestPriorityAliasIsStored ==
    \A i \in DOMAIN last.log :
       LET e == last.log[i] IN
       (/\ EntryIsMessage(e, "telemetry") \/ EntryIsMessage(e, "event")
        /\ Cardinality(PresentAliases(e.line.obj)) >= 2
        /\ \A j \in PresentAliases(e.line.obj) :
              e.line.obj[AliasKeys(e.line.obj)[j]] \notin {None, "0", "0.0"})
       => e.post.series_by_zone[EntryZone(e)].last_autotune_sp =
             FirstPresent(e.line.obj, AliasKeys(e.line.obj), 1)

\* C7: a telemetry or event message without any alias field leaves the
\* zone's autotune_setpoint as it was, and no line makes a stored
\* autotune_setpoint absent.
C7_NoAliasKeepsAutotuneSp ==
    \A i \in DOMAIN last.log :
       LET e == last.log[i] IN
       /\ (/\ EntryIsMessage(e, "telemetry") \/ EntryIsMessage(e, "event")
           /\ PresentAliases(e.line.obj) = {})
          => e.post.series_by_zone[EntryZone(e)].last_autotune_sp =
                ZoneOf(e.pre, EntryZone(e)).last_autotune_sp
       /\ \A z \in DOMAIN e.pre.series_by_zone :
             e.pre.series_by_zone[z].last_autotune_sp # None
             => e.post.series_by_zone[z].last_autotune_sp # None
C7_Witness ==
    \E i \in DOMAIN last.log :
       LET e == last.log[i] IN
       /\ EntryIsMessage(e, "telemetry") /\ PresentAliases(e.line.obj) = {}
       /\ ZoneOf(e.pre, EntryZone(e)).last_autotune_sp = "80.0"
       /\ e.post.series_by_zone[EntryZone(e)].last_pv = e.line.obj["pv_c"]
       /\ e.post.series_by_zone[EntryZone(e)].last_pv # ZoneOf(e.pre, EntryZone(e)).last_pv

\* C8: an empty line, a line that is not valid JSON and an object whose
\* type is missing or neither telemetry nor event change no zone's series
\* or snapshot and create no zone or tab, in open_log and in _tail_tick.
EntryIsSkipped(e) ==
    \/ e.line.kind \in {"blank", "badjson"}
    \/ e.line.kind = "obj" /\ e.line.obj["type"] \notin {"telemetry", "event"}
C8_SkippedLineChangesNothing ==
    \A i \in DOMAIN last.log :
       EntryIsSkipped(last.log[i])
       => last.log[i].post = last.log[i].pre /\ ~last.log[i].raised
C8_Witness ==
    /\ last.op = "_tail_tick"
    /\ \E i \in DOMAIN last.log :
          /\ last.log[i].line.kind = "badjson" /\ last.log[i].line.part = "whole"
          /\ last.log[i].line.ztext \in last.zones_touched
          /\ last.log[i].pre.series_by_zone["1"].pv # <<>>

C10_NoLineAbortsTheBatch ==
    /\ Len(last.log) = Len(last.batch)
    /\ \A i \in DOMAIN last.log : ~last.log[i].raised

\* C11: a full load of the log that directly follows a full load of the
\* same, unchanged log leaves every zone's series and snapshot, and the set
\* of zones and tabs, as the first load left them.
C11_ReloadIsIdempotent ==
    [][(last'.op = "open_log" /\ last'.before = "same")
       => /\ series_by_zone' = series_by_zone
          /\ tabs_by_zone' = tabs_by_zone
          /\ nb' = nb]_vars
C11_Witness ==
    /\ last.op = "open_log" /\ last.before = "same"
    /\ status_bar.kind = "opened"
    /\ Len(last.log) = 2
    /\ series_by_zone["1"].pv # <<>>
    /\ series_by_zone["1"].last_autotune_sp # None

\* C12: the "Clear plot" button of zone z empties t and pv of z and leaves
\* alone every snapshot field of z, every other zone, the tabs and the tail
\* handle and cursor; a telemetry line with a finite pv and a timestamp
\* makes an empty series a series of one point.
GoodTelemetry(e) ==
    /\ EntryIsMessage(e, "telemetry")
    /\ TimestampResolvable(e.line.obj)
    /\ e.line.obj["pv_c"] \in FinitePv
EmptySeriesGetsOnePoint ==
    \A i \in DOMAIN last.log :
       LET e == last.log[i] IN
       (GoodTelemetry(e) /\ SeriesOf(ZoneOf(e.pre, EntryZone(e))) = <<<<>>, <<>>>>)
       => /\ Len(e.post.series_by_zone[EntryZone(e)].t) = 1
          /\ Len(e.post.series_by_zone[EntryZone(e)].pv) = 1
C12_ClearTraceEmptiesOnlyTheSeries ==
    [][/\ (last'.op = "on_clear" /\ vars' # vars)
          => /\ \E z \in DOMAIN series_by_zone :
                   /\ series_by_zone[z].pv # <<>>
                   /\ series_by_zone' =
                         [series_by_zone EXCEPT ![z].t = <<>>, ![z].pv = <<>>]
             /\ UNCHANGED <<tabs_by_zone, nb, _tail_fp, _tail_pos, current_log_path>>
       /\ EmptySeriesGetsOnePoint']_vars
C12_Witness ==
    /\ last.op = "_tail_tick"
    /\ Len(file) = 2 /\ applied[1] = 1
    /\ file[1].kind = "obj" /\ file[1].obj["type"] = "telemetry"
    /\ file[1].obj["zone"] = "1" /\ file[1].obj["pv_c"] \in FinitePv
    /\ \E i \in DOMAIN last.log :
          /\ last.log[i].line.idx = 2
          /\ GoodTelemetry(last.log[i]) /\ EntryZone(last.log[i]) = "1"
          /\ last.log[i].pre.series_by_zone["1"].pv = <<>>
          /\ last.log[i].pre.series_by_zone["1"].last_pv # None
          /\ Len(last.log[i].post.series_by_zone["1"].pv) = 1

\* C13: every known zone has one state and one tab at all times; a line
\* adds a zone only if it is a telemetry or event message with an integer
\* zone not yet known, and then exactly that zone; no step removes a zone,
\* a state or a tab.
TabsOf(N, z) == Cardinality({i \in DOMAIN N : N[i] = z})
OneStateOneTab ==
    /\ DOMAIN series_by_zone = tabs_by_zone
    /\ DEFAULT_ZONES \subseteq tabs_by_zone
    /\ \A z \in tabs_by_zone : TabsOf(nb, z) = 1
    /\ \A i \in DOMAIN last.log :
          LET e == last.log[i]
              new == IF (EntryIsMessage(e, "telemetry") \/ EntryIsMessage(e, "event"))
                        /\ EntryZone(e) \notin DOMAIN e.pre.series_by_zone
                     THEN {EntryZone(e)} ELSE {}
          IN  /\ DOMAIN e.post.series_by_zone = DOMAIN e.pre.series_by_zone \cup new
              /\ e.post.tabs_by_zone = e.pre.tabs_by_zone \cup new
              /\ \A z \in DOMAIN e.post.series_by_zone : TabsOf(e.post.nb, z) = 1
C13_ZonesAreCreatedOnce ==
    [][/\ OneStateOneTab /\ OneStateOneTab'
       /\ tabs_by_zone \subseteq tabs_by_zone'
       /\ DOMAIN series_by_zone \subseteq DOMAIN series_by_zone'
       /\ Len(nb) <= Len(nb')
       /\ SubSeq(nb', 1, Len(nb)) = nb]_vars
C13_Witness ==
    /\ last.op = "_tail_tick"
    /\ TabsOf(nb, "12") = 1
    /\ \E i \in DOMAIN last.log :
          /\ EntryIsMessage(last.log[i], "telemetry")
          /\ EntryZone(last.log[i]) = "12"
          /\ "12" \in DOMAIN last.log[i].pre.series_by_zone

\* C14: open_log closes the tail and zeroes the cursor and resets every
\* known zone before it ingests the first line, so the first line meets
\* only empty zones, and after opening the empty second log every zone is
\* empty.
AllFresh(S) == \A z \in DOMAIN S : S[z] = ZoneSeries(z)
C14_LoadStartsFromEmptyZones ==
    /\ last.op = "open_log"
       => /\ IF last.log # <<>>
             THEN AllFresh(last.log[1].pre.series_by_zone)
             ELSE AllFresh(series_by_zone)
          /\ (pc = "open_tail" \/ status_bar.kind = "failed")
             => _tail_fp = None /\ _tail_pos = 0
    /\ current_log_path = "log2"
       => AllFresh(series_by_zone) /\ _tail_fp = "log2" /\ _tail_pos = 0
C14_Witness ==
    /\ current_log_path = "log2"
    /\ last.op = "open_log" /\ last.before = "data"
    /\ "12" \in tabs_by_zone
    /\ AllFresh(series_by_zone)

\* C15: between handlers exactly one _tail_tick is pending, whatever the
\* ticks before did; a tick in which a line raised has reported it on the
\* status bar.
TickRaised == last.op = "_tail_tick" /\ \E i \in DOMAIN last.log : last.log[i].raised
C15_OneTickAlwaysPending ==
    /\ timers = <<"_tail_tick">>
    /\ TickRaised => status_bar.kind = "tailerror"
C15_Witness ==
    /\ TickRaised
    /\ Len(last.batch) = 2 /\ Len(last.log) = 1
    /\ timers = <<"_tail_tick">>
    /\ status_bar.kind = "tailerror"

\* C16: zones_touched of a tail tick holds every zone a line of the tick
\* created or changed.
C16_TouchedCoversChangedZones ==
    last.op = "_tail_tick"
    => \A i \in DOMAIN last.log :
          \A z \in DOMAIN last.log[i].post.series_by_zone :
             (\/ z \notin DOMAIN last.log[i].pre.series_by_zone
              \/ last.log[i].post.series_by_zone[z] # ZoneOf(last.log[i].pre, z))
             => z \in last.zones_touched

\* C17: after a tail tick in which a line raised, the cursor is not past
\* the start of any line of the batch that _ingest_line never got.
C17_RaisedTickKeepsUnappliedLines ==
    TickRaised
    => \A k \in DOMAIN last.batch :
          k > Len(last.log) => _tail_pos <= LineSize * (last.batch[k].idx - 1)

\* C18: a zone that a tail tick touches is the zone _ingest_line returned
\* for a line or, for a line with the telemetry marker that gave no zone,
\* the zone of the log line the text belongs to.
C18_FallbackTouchesTheLinesZone ==
    last.op = "_tail_tick"
    => last.zones_touched \subseteq
          {last.log[i].ret : i \in DOMAIN last.log}
          \cup {file[last.log[i].line.idx].ztext :
                  i \in {j \in DOMAIN last.log : last.log[j].line.marker}}

\* C19: with whole lines only and no line that raises, once open_log has
\* opened the tail no line was applied twice and every line before the
\* cursor was applied.
C19_EveryLineAppliedOnce ==
    (/\ pc = "idle" /\ _tail_fp = "log"
     /\ \A k \in DOMAIN file : ~_ingest_line(Registry, file[k]).raised)
    => \A k \in DOMAIN file :
          /\ applied[k] <= 1
          /\ LineSize * k <= _tail_pos => applied[k] = 1

\* C20: open_log with a path that does not exist leaves the log path, the
\* tail handle and cursor, the pending tick, every zone's series and
\* snapshot and the tabs as they were.
C20_MissingPathChangesOnlyTheStatus ==
    [][last'.op = "open_missing"
       => UNCHANGED <<current_log_path, _tail_fp, _tail_pos, series_by_zone,
                      tabs_by_zone, nb, timers, pc>>]_vars
C20_Witness ==
    /\ status_bar.kind = "notfound"
    /\ last.op = "_tail_tick" /\ last.log # <<>>
    /\ _tail_fp = "log" /\ current_log_path = "log"
    /\ _tail_pos = size

====
